---- MODULE Spec2Model ----
(***************************************************************************)
(* Model of suricata's reference.config loader, util-reference-config.c:   *)
(* the line classifier, the directive regex, the entry constructor, the    *)
(* hash/compare callbacks and the load / lookup entry points.              *)
(*                                                                         *)
(* A C string is a sequence of one-character strings.  A pointer is NULL   *)
(* (the empty tuple) or a one-element tuple holding the pointee.           *)
(***************************************************************************)
EXTENDS Integers, Sequences, FiniteSets, TLC

VARIABLES
    reference_conf_ht,  \* de_ctx->reference_conf_ht: pointer to the HashTable
    fd,                 \* static FILE *fd: pointer to the open stream
    regex,              \* static pcre *regex
    regex_study,        \* static pcre_extra *regex_study
    pc,                 \* position of the caller in SCRConfLoadReferenceConfigFile
    line,               \* char line[1024] of SCRConfParseFile, as last filled by fgets
    log,                \* the message the last step logged
    probe,              \* the ref_new last handed to HashTableLookup by SCRConfAddReference
    load_ret,           \* return value of SCRConfLoadReferenceConfigFile
    lookup_ret,         \* return value of the last SCRConfGetReference call
    source,             \* history: the lines of the source the current load reads
    entry_nomem,        \* history: SCRConfAllocSCRConfReference ran out of memory in this load
    cmp,                \* the last direct call of the two hash callbacks on a pair of references
    earlier,            \* history: the sources of the loads that returned before the current one
    stdio               \* the C library's state of the stream fd was last set to

vars == <<reference_conf_ht, fd, regex, regex_study, pc, line, log, probe,
          load_ret, lookup_ret, source, entry_nomem, cmp, earlier, stdio>>

-----------------------------------------------------------------------------
(* Pointers *)

NULL == <<>>

Ptr(x) == <<x>>

Deref(p) == p[1]

-----------------------------------------------------------------------------
(* The stream behind fd, as the C library sees it.  status: whether the   *)
(* stream fd was last set to is open; fault: a call the C standard leaves *)
(* undefined was made on it, after which the program may do anything;     *)
(* lost: a stream was still open when fd was set to another one.          *)

NoStream == [status |-> "none", fault |-> "none", lost |-> FALSE]

\* fd = fopen(...) or fd = SCFmemopen(...), returning a stream.
FOpen(io) ==
    [status |-> "open", fault |-> io.fault, lost |-> io.lost \/ io.status = "open"]

\* fclose(fd)
FClose(io) ==
    [status |-> "closed",
     fault  |-> IF io.status = "open" THEN io.fault ELSE "double_close",
     lost   |-> io.lost]

\* fgets(line, sizeof(line), fd)
FGets(io) ==
    [io EXCEPT !.fault = IF io.status = "open" THEN @ ELSE "read_closed"]

-----------------------------------------------------------------------------
(* Characters: <ctype.h> on the ASCII characters the model uses *)

LowerCase == <<"a","b","c","d","e","f","g","h","i","j","k","l","m",
               "n","o","p","q","r","s","t","u","v","w","x","y","z">>

UpperCase == <<"A","B","C","D","E","F","G","H","I","J","K","L","M",
               "N","O","P","Q","R","S","T","U","V","W","X","Y","Z">>

Digits == <<"0","1","2","3","4","5","6","7","8","9">>

Range(s) == { s[i] : i \in DOMAIN s }

IndexOf(s, c) == CHOOSE i \in DOMAIN s : s[i] = c

isspace(c) == c \in {" ", "\t", "\n", "\r", "\f"}

isupper(c) == c \in Range(UpperCase)

isalpha(c) == c \in Range(LowerCase) \cup Range(UpperCase)

isdigit(c) == c \in Range(Digits)

tolower(c) == IF isupper(c) THEN LowerCase[IndexOf(UpperCase, c)] ELSE c

\* The ASCII code of a character (the value of (unsigned char)c).
Ord(c) ==
    CASE c \in Range(LowerCase) -> 96 + IndexOf(LowerCase, c)
      [] c \in Range(UpperCase) -> 64 + IndexOf(UpperCase, c)
      [] c \in Range(Digits)    -> 47 + IndexOf(Digits, c)
      [] c = "\t" -> 9
      [] c = "\n" -> 10
      [] c = "\f" -> 12
      [] c = "\r" -> 13
      [] c = " "  -> 32
      [] c = "#"  -> 35
      [] c = "-"  -> 45
      [] c = "."  -> 46
      [] c = "/"  -> 47
      [] c = ":"  -> 58
      [] c = "_"  -> 95

Max(S) == CHOOSE x \in S : \A y \in S : y <= x

Min(S) == CHOOSE x \in S : \A y \in S : x <= y

-----------------------------------------------------------------------------
\* SC_RCONF_REGEX as pcre_exec runs it: optional whitespace, "config",
\* whitespace, "reference", optional whitespace, ":", optional whitespace,
\* group 1 = a letter then letters, digits, "-", "_" (greedy), whitespace,
\* group 2 = one or more non-newline characters (greedy), optional
\* whitespace, end of subject.
\* Positions are 1-based; a position is the index of the next character.

kwConfig == <<"c","o","n","f","i","g">>

kwReference == <<"r","e","f","e","r","e","n","c","e">>

\* \s (PCRE): the position after the longest run of whitespace from i.
RECURSIVE SkipWs(_, _)
SkipWs(s, i) ==
    IF i <= Len(s) /\ isspace(s[i]) THEN SkipWs(s, i + 1) ELSE i

\* A literal: whether s holds lit at position i.
HasLit(s, i, lit) ==
    /\ i + Len(lit) - 1 <= Len(s)
    /\ \A j \in 1..Len(lit) : s[i + j - 1] = lit[j]

\* [a-zA-Z0-9-_]
IsNameChar(c) == isalpha(c) \/ isdigit(c) \/ c = "-" \/ c = "_"

\* [a-zA-Z0-9-_]* greedy: the position after the longest run from i.
RECURSIVE SkipName(_, _)
SkipName(s, i) ==
    IF i <= Len(s) /\ IsNameChar(s[i]) THEN SkipName(s, i + 1) ELSE i

\* . without PCRE_DOTALL: the position after the longest run of non-newlines.
\* That is the first newline from i, or the end of the subject.
SkipDot(s, i) ==
    LET newlines == { j \in i..Len(s) : s[j] = "\n" }
    IN  IF newlines = {} THEN Max({i, Len(s) + 1}) ELSE Min(newlines)

\* $ without PCRE_MULTILINE: the end of the subject, or just before a
\* newline that is the subject's last character.
DollarAt(s, p) == p = Len(s) + 1 \/ (p = Len(s) /\ s[p] = "\n")

\* \s*$ from p: some backtracking choice of \s* ends where $ matches.
TrailOK(s, p) == \E q \in p..SkipWs(s, p) : DollarAt(s, q)

\* (.+)\s*$ from j: the lengths of group 2 the matcher can accept.
UrlLens(s, j) == { m \in 1..(SkipDot(s, j) - j) : TrailOK(s, j + m) }

\* \s+(.+)\s*$ from i: the lengths of \s+ after which the rest can match.
SepLens(s, i) == { k \in 1..(SkipWs(s, i) - i) : UrlLens(s, i + k) # {} }

\* Greedy (.+) from j: the longest acceptable length; <<first, last>>.
PickUrl(s, j) == <<j, j + Max(UrlLens(s, j)) - 1>>

\* Greedy \s+ from i: backtracking tries the longest separator first.
PickSep(s, i, seps) == IF seps = {} THEN <<>> ELSE PickUrl(s, i + Max(seps))

\* \s+(.+)\s*$ from i: the span of group 2 in the first match found, or <<>>.
MatchValue(s, i) == PickSep(s, i, SepLens(s, i))

\* pcre_get_substring 1 and 2: group 1 is s[i7..i8-1], group 2 is s[v].
Captures(s, i7, i8, v) ==
    IF v = <<>> THEN NULL
    ELSE Ptr([system |-> SubSeq(s, i7, i8 - 1), url |-> SubSeq(s, v[1], v[2])])

\* ([a-zA-Z][a-zA-Z0-9-_]*) and what follows, from i7.
MatchName(s, i7) ==
    IF i7 > Len(s) \/ ~isalpha(s[i7]) THEN NULL
    ELSE Captures(s, i7, SkipName(s, i7 + 1), MatchValue(s, SkipName(s, i7 + 1)))

\* The pattern with its colon made optional.
MatchColonOptional(s, i5) ==
    IF ~HasLit(s, i5, <<":">>) THEN MatchName(s, i5)
    ELSE MatchName(s, SkipWs(s, i5 + 1))

\* :\s* and what follows, from i5.
MatchColon(s, i5) ==
    IF ~HasLit(s, i5, <<":">>) THEN NULL
    ELSE MatchName(s, SkipWs(s, i5 + 1))

\* \s+reference\s* and what follows: the whitespace runs from i2 to i3.
MatchReference(s, i2, i3) ==
    IF i3 = i2 \/ ~HasLit(s, i3, kwReference) THEN NULL
    ELSE MatchColon(s, SkipWs(s, i3 + Len(kwReference)))

\* config and what follows, from i1.
MatchConfig(s, i1) ==
    IF ~HasLit(s, i1, kwConfig) THEN NULL
    ELSE MatchReference(s, i1 + Len(kwConfig), SkipWs(s, i1 + Len(kwConfig)))

\* pcre_exec followed by the two pcre_get_substring calls: NULL when the
\* line does not match, else the captured system and url.
RegexExec(s) == MatchConfig(s, SkipWs(s, 1))

-----------------------------------------------------------------------------
(* SCRConfIsLineBlankOrComment *)

RECURSIVE IsBlankOrCommentFrom(_, _)
IsBlankOrCommentFrom(s, i) ==
    IF i > Len(s) THEN TRUE
    ELSE IF s[i] = "#" THEN TRUE
    ELSE IF ~isspace(s[i]) THEN FALSE
    ELSE IsBlankOrCommentFrom(s, i + 1)

\* The scan taking a "#" anywhere in the line for a comment.
BlankOrCommentAnyHash(s) ==
    IsBlankOrCommentFrom(s, 1) \/ \E i \in DOMAIN s : s[i] = "#"

SCRConfIsLineBlankOrComment(s) == IsBlankOrCommentFrom(s, 1)

-----------------------------------------------------------------------------
(* SCRConfReference and its constructor *)

\* SCRConfStringToLowercase without its tolower loop: the SCStrdup alone.
StringCopyOnly(str) == str

\* SCRConfStringToLowercase: a copy of str with tolower applied to each char.
SCRConfStringToLowercase(str) == [i \in 1..Len(str) |-> tolower(str[i])]

\* SCRConfAllocSCRConfReference(system, url): system and url are pointers
\* to strings; mem_ok says whether SCMalloc/SCStrdup succeed; addr is the
\* address the new instance gets.  NULL for a NULL system or without
\* memory, else a pointer to {system lowercased, url copied or NULL}.
SCRConfAllocSCRConfReference(system, url, addr, mem_ok) ==
    IF system = NULL THEN NULL
    ELSE IF ~mem_ok THEN NULL
    ELSE Ptr([addr   |-> addr,
              system |-> Ptr(SCRConfStringToLowercase(Deref(system))),
              url    |-> IF url # NULL THEN Ptr(Deref(url)) ELSE NULL])

-----------------------------------------------------------------------------
(* The hash callbacks *)

\* The uint32_t sum of the lowercased characters.  A name comes from one
\* fgets buffer, so the sum stays below 255 * 1024 and never wraps.
RECURSIVE SumLower(_, _)
SumLower(str, i) ==
    IF i > Len(str) THEN 0
    ELSE Ord(tolower(str[i])) + SumLower(str, i + 1)

\* SCRConfReferenceHashFunc(ht, data, datalen): data points to a reference.
SCRConfReferenceHashFunc(ht, data) ==
    SumLower(Deref(Deref(data).system), 1) % ht.array_size

\* The callback comparing the two pointers instead of the two names.
ComparePointers(data1, data2) == IF data1 = data2 THEN 1 ELSE 0

\* SCRConfReferenceHashCompareFunc(data1, len1, data2, len2)
SCRConfReferenceHashCompareFunc(data1, data2) ==
    IF data1 = NULL \/ data2 = NULL THEN 0
    ELSE IF Deref(data1).system = NULL \/ Deref(data2).system = NULL THEN 0
    ELSE LET s1 == Deref(Deref(data1).system)
             s2 == Deref(Deref(data2).system)
         IN  IF Len(s1) = Len(s2) /\ \A i \in 1..Len(s1) : s1[i] = s2[i]
             THEN 1 ELSE 0

-----------------------------------------------------------------------------
(* HashTable (util-hash): an array of buckets, each a list of the stored   *)
(* data pointers, newest first, and the number of stored items.            *)

HashTableArraySize == 128

HashTableInit(size) ==
    Ptr([array_size |-> size, count |-> 0, array |-> [h \in 0..(size - 1) |-> <<>>]])

\* The first item of a bucket that the compare callback reports equal.
RECURSIVE BucketFind(_, _, _)
BucketFind(bucket, i, data) ==
    IF i > Len(bucket) THEN NULL
    ELSE IF SCRConfReferenceHashCompareFunc(bucket[i], data) = 1 THEN bucket[i]
    ELSE BucketFind(bucket, i + 1, data)

HashTableLookup(ht, data) ==
    IF ht = NULL THEN NULL
    ELSE BucketFind(Deref(ht).array[SCRConfReferenceHashFunc(Deref(ht), data)], 1, data)

\* Stores data at the head of bucket h.
BucketAdd(t, h, data) ==
    [t EXCEPT !.array[h] = <<data>> \o @, !.count = @ + 1]

\* [ret, ht]
HashTableAdd(ht, data) ==
    IF ht = NULL \/ data = NULL THEN [ret |-> -1, ht |-> ht]
    ELSE [ret |-> 0,
          ht  |-> Ptr(BucketAdd(Deref(ht), SCRConfReferenceHashFunc(Deref(ht), data), data))]

\* All data pointers a table holds.
HashTableItems(ht) ==
    IF ht = NULL THEN {}
    ELSE UNION { Range(Deref(ht).array[h]) : h \in DOMAIN Deref(ht).array }

-----------------------------------------------------------------------------
(* The sources a load may read.  A line is described by how it was built:  *)
(* its text and, apart from the text, what kind of line it is and the name *)
(* and value it was built from.                                            *)

MaxLines == 2

SP == <<" ">>

TAB == <<"\t">>

NL == <<"\n">>

\* lead "config" sep1 "reference" sep2 ":" sep3 name sep4 value trail eol
Directive(lead, sep1, sep2, sep3, name, sep4, value, trail, eol) ==
    [text   |-> lead \o kwConfig \o sep1 \o kwReference \o sep2 \o <<":">>
                \o sep3 \o name \o sep4 \o value \o trail \o eol,
     kind   |-> "directive",
     name   |-> name,
     value  |-> value,
     trail  |-> trail,
     eol    |-> eol # <<>>]

\* "config reference: name value\n"
Plain(name, value) == Directive(<<>>, SP, <<>>, SP, name, SP, value, <<>>, NL)

Other(text, kind) ==
    [text |-> text, kind |-> kind, name |-> <<>>, value |-> <<>>,
     trail |-> <<>>, eol |-> TRUE]

\* A line of the directive's shape with one defect.
Malformed(text, name, defect) ==
    [text |-> text, kind |-> defect, name |-> name, value |-> <<>>,
     trail |-> <<>>, eol |-> TRUE]

DirectiveLines ==
    { Plain(<<"a">>, <<"u">>),
      Plain(<<"A">>, <<"v">>),
      Plain(<<"a","b">>, <<"u">>),
      Plain(<<"b","a">>, <<"v">>),
      Plain(<<"B","a">>, <<"#","u">>),
      Directive(<<" ","\t">>, TAB, TAB, <<>>, <<"a","-","1","_">>, <<" ","\t">>,
                <<"u"," ","v">>, <<>>, NL),
      Directive(<<>>, SP, <<>>, SP, <<"c">>, SP, <<"u">>, <<" ","\t">>, NL),
      Directive(<<>>, SP, <<>>, SP, <<"d">>, SP, <<" ">>, <<>>, NL),
      Directive(<<>>, SP, <<>>, SP, <<"A","b">>, SP, <<"w">>, <<>>, <<>>) }

MalformedLines ==
    { Malformed(kwConfig \o SP \o kwReference \o SP \o <<"a"," ","u","\n">>,
                <<"a">>, "no_colon"),
      Malformed(kwConfig \o SP \o kwReference \o <<":"," ","a","b","\n">>,
                <<"a","b">>, "no_value"),
      Malformed(kwConfig \o SP \o kwReference \o <<":"," ","e"," ","\n">>,
                <<"e">>, "no_value"),
      Malformed(kwConfig \o <<"_"," ">> \o kwReference \o <<":"," ","e"," ","u","\n">>,
                <<"e">>, "bad_keyword"),
      Malformed(kwConfig \o SP \o kwReference \o <<"_",":"," ","f"," ","u","\n">>,
                <<"f">>, "bad_keyword"),
      Malformed(kwConfig \o SP \o kwReference \o <<":"," ","1","a"," ","u","\n">>,
                <<"1","a">>, "bad_name") }

SkippedLines ==
    { Other(<<"\n">>, "blank"),
      Other(<<" ","\t","\n">>, "blank"),
      Other(<<"#">> \o kwConfig \o SP \o kwReference \o <<":"," ","f"," ","u","\n">>,
            "comment"),
      Other(<<" ","\t","#","\n">>, "comment") }

Lines == DirectiveLines \cup MalformedLines \cup SkippedLines

\* Every line but the last ends with a newline.
Files ==
    UNION { { f \in [1..n -> Lines] : \A i \in 1..(n - 1) : f[i].eol } : n \in 0..MaxLines }

RECURSIVE Flatten(_, _)
Flatten(f, i) == IF i > Len(f) THEN <<>> ELSE f[i].text \o Flatten(f, i + 1)

\* The stream over a file: the bytes still to read, and the lines they
\* were built from.
Stream(f) == [buf |-> Flatten(f, 1), lines |-> f]

\* Pointers to the streams a load may be given.
Streams == { Ptr(Stream(f)) : f \in Files }

\* The names SCRConfGetReference is called with.
LookupNames ==
    { <<"a">>, <<"A">>, <<"A","B">>, <<"b","a">>, <<"e">>, <<"1","a">> }

-----------------------------------------------------------------------------
(* fgets(line, sizeof(line), fd) *)

LineBufSize == 1024

\* The position of the first newline of buf from i, or Len(buf) without one.
LineEnd(buf, i) ==
    LET newlines == { j \in i..Len(buf) : buf[j] = "\n" }
    IN  IF newlines = {} THEN Max({i, Len(buf)}) ELSE Min(newlines)

\* The number of characters one fgets call stores: up to and including
\* the first newline, at most LineBufSize - 1 of them.  buf is not empty.
FgetsLen(buf) ==
    IF LineEnd(buf, 1) < LineBufSize - 1 THEN LineEnd(buf, 1) ELSE LineBufSize - 1

\* The stream after n characters were read from it; a source line is
\* done when its last character was read.
Advance(st, n) ==
    [buf   |-> SubSeq(st.buf, n + 1, Len(st.buf)),
     lines |-> IF st.buf[n] = "\n" \/ n = Len(st.buf) THEN Tail(st.lines)
               ELSE st.lines]

\* Lines longer than the buffer fgets fills: a directive whose value alone
\* fills the buffer, and a comment whose text after LineBufSize - 1
\* characters reads as a directive.
Filler(n) == [i \in 1..n |-> "x"]

LongLines ==
    { Directive(<<>>, SP, <<>>, SP, <<"a">>, SP, Filler(LineBufSize), <<>>, NL),
      Other(<<"#">> \o Filler(LineBufSize - 2) \o Plain(<<"b">>, <<"v">>).text,
            "comment") }

\* Files holding long lines, alone or next to a short directive.
LongFiles ==
    UNION { [1..n -> LongLines \cup {Plain(<<"b">>, <<"u">>)}] : n \in 1..MaxLines }

LongStreams == { Ptr(Stream(f)) : f \in LongFiles }

-----------------------------------------------------------------------------
(* SCRConfAddReference(rawstr, de_ctx) *)

NoProbe == [called |-> FALSE, data |-> NULL]

AddResult(ret, ht, msg, ref, crashed) ==
    [ret |-> ret, ht |-> ht, log |-> msg,
     probe |-> [called |-> TRUE, data |-> ref], crashed |-> crashed]

\* ref_lookup == NULL: HashTableAdd, whose failure is only logged.
AddAbsent(r, ref_new) ==
    AddResult(0, r.ht, IF r.ret < 0 THEN "HashTable Add failed" ELSE "none",
              ref_new, FALSE)

\* SCRConfAddReference adding without looking the reference up first.
AddWithoutLookup(ref_new, ht, survive) ==
    AddAbsent(HashTableAdd(ht, ref_new), ref_new)

\* From HashTableLookup on.  A NULL ref_new is handed to HashTableLookup
\* all the same, whose hash callback reads ref->system through it: survive
\* says whether that read of address 0 returns (the lookup then finds
\* nothing and HashTableAdd refuses the NULL) or the process dies on it.
AddLookup(ref_new, ht, survive) ==
    IF ref_new = NULL
    THEN AddResult(0, ht, IF survive THEN "HashTable Add failed" ELSE "none",
                   NULL, ~survive)
    ELSE IF HashTableLookup(ht, ref_new) = NULL
    THEN AddAbsent(HashTableAdd(ht, ref_new), ref_new)
    ELSE AddResult(0, ht, "Duplicate reference found", ref_new, FALSE)

\* From the pcre_exec result m on.
AddMatched(m, ht, addr, mem_ok, survive) ==
    IF m = NULL
    THEN [ret |-> -1, ht |-> ht, log |-> "SC_ERR_REFERENCE_CONFIG",
          probe |-> NoProbe, crashed |-> FALSE]
    ELSE AddLookup(SCRConfAllocSCRConfReference(Ptr(Deref(m).system),
                                                Ptr(Deref(m).url), addr, mem_ok),
                   ht, survive)

\* mem_ok: whether SCRConfAllocSCRConfReference gets its memory; addr: the
\* address of the instance it returns.  [ret, ht, log, probe, crashed]
SCRConfAddReference(rawstr, ht, addr, mem_ok, survive) ==
    AddMatched(RegexExec(rawstr), ht, addr, mem_ok, survive)

-----------------------------------------------------------------------------
(* SCRConfInitContextAndLocalResources(de_ctx) *)

\* The error label without its HashTableFree and reset of the table.
InitErrorKeepsTable(msg, fd1, io) ==
    [ret |-> -1, ht |-> HashTableInit(HashTableArraySize), fd |-> NULL,
     regex |-> NULL, regex_study |-> NULL, log |-> msg,
     stdio |-> IF fd1 # NULL THEN FClose(io) ELSE io]

\* The error label: the table is freed, every handle closed and cleared.
\* fd1: the module's fd on reaching the label, io: its stream.
InitError(msg, fd1, io) ==
    [ret |-> -1, ht |-> NULL, fd |-> NULL, regex |-> NULL,
     regex_study |-> NULL, log |-> msg,
     stdio |-> IF fd1 # NULL THEN FClose(io) ELSE io]

Compiled == Ptr("SC_RCONF_REGEX")

\* A compiled pattern for which pcre_study reports an error.
Unstudied == Ptr("pcre_study error")

\* fd1: the stream in use, ht_new: what HashTableInit returned, re: what
\* pcre_compile returned, io: the stream behind fd1.
InitWith(fd1, ht_new, re, io) ==
    IF ht_new = NULL THEN InitError("SC_ERR_HASH_TABLE_INIT", fd1, io)
    ELSE IF fd1 = NULL THEN InitError("SC_ERR_FOPEN", fd1, io)
    ELSE IF re = NULL THEN InitError("pcre compile failed", fd1, io)
    ELSE IF re = Unstudied THEN InitError("pcre study failed", fd1, io)
    ELSE [ret |-> 0, ht |-> ht_new, fd |-> fd1, regex |-> re,
          regex_study |-> Ptr("study"), log |-> "none", stdio |-> io]

\* Whether the function reaches its fopen and fopen returns a stream.
Opens(fd_in, opened, ht_new) == ht_new # NULL /\ fd_in = NULL /\ opened # NULL

\* fd_in: the module's fd on entry; opened: the stream fopen returns when
\* fd_in is NULL (NULL when the file cannot be opened); io: the stream
\* behind fd_in.  [ret, ht, fd, regex, regex_study, log, stdio]
SCRConfInitContextAndLocalResources(fd_in, opened, ht_new, re, io) ==
    InitWith(IF Opens(fd_in, opened, ht_new) THEN opened ELSE fd_in, ht_new, re,
             IF Opens(fd_in, opened, ht_new) THEN FOpen(io) ELSE io)

-----------------------------------------------------------------------------
(* SCRConfDeInitLocalResources(de_ctx) *)

\* The function closing the stream and leaving fd as it is.
DeInitLocalResourcesKeepsFd(fd1, io) ==
    [fd |-> fd1, regex |-> NULL, regex_study |-> NULL,
     stdio |-> IF fd1 # NULL THEN FClose(io) ELSE io]

\* fd1: the module's fd, io: its stream.  [fd, regex, regex_study, stdio]
SCRConfDeInitLocalResources(fd1, io) ==
    [fd |-> NULL, regex |-> NULL, regex_study |-> NULL,
     stdio |-> IF fd1 # NULL THEN FClose(io) ELSE io]

-----------------------------------------------------------------------------
(* SCRConfGetReference(rconf_name, de_ctx) *)

NoLookup == [called |-> FALSE, name |-> <<>>, ret |-> NULL]

\* The entry stored under rconf_name, or NULL.
SCRConfGetReference(rconf_name, ht) ==
    HashTableLookup(ht, SCRConfAllocSCRConfReference(Ptr(rconf_name), NULL, 0, TRUE))

\* The references the hash callbacks are called on directly: raw names,
\* not passed through SCRConfAllocSCRConfReference.
RawNames ==
    { <<"c","v","e">>, <<"C","V","E">>, <<"C","v","e">>, <<"a">>, <<"A">>,
      <<"a","b">>, <<"b","a">>, <<"A","B">>, <<"b">>, <<"B">>, <<"c">> }

RawReference(name) == Ptr([addr |-> 0, system |-> Ptr(name), url |-> NULL])

NoCmp == [called |-> FALSE, data1 |-> NULL, data2 |-> NULL, equal |-> 0,
          hash1 |-> 0, hash2 |-> 0]

-----------------------------------------------------------------------------
(* State machine *)

Init ==
    /\ reference_conf_ht = NULL
    /\ fd = NULL
    /\ regex = NULL
    /\ regex_study = NULL
    /\ pc = "idle"
    /\ line = <<>>
    /\ log = "none"
    /\ probe = NoProbe
    /\ load_ret = NULL
    /\ lookup_ret = NoLookup
    /\ source = <<>>
    /\ entry_nomem = FALSE
    /\ cmp = NoCmp
    /\ stdio = NoStream
    /\ earlier = <<>>

\* The caller is outside SCRConfLoadReferenceConfigFile.
Outside == pc \in {"idle", "returned"}

\* The unit tests' SCRConfGenerate...DummyReferenceConfigFD: fd becomes a
\* memory stream over a buffer, before the context's load.
InstallDummyFD ==
    /\ pc = "idle"
    /\ fd = NULL
    /\ \E st \in Streams : fd' = st
    /\ stdio' = FOpen(stdio)
    /\ lookup_ret' = NoLookup
    /\ UNCHANGED <<reference_conf_ht, regex, regex_study, pc, line, log, probe,
                   load_ret, source, entry_nomem, cmp, earlier>>

\* SCRConfDeleteDummyReferenceConfigFD
SCRConfDeleteDummyReferenceConfigFD ==
    /\ Outside
    /\ fd' = NULL
    /\ stdio' = IF fd # NULL THEN FClose(stdio) ELSE stdio
    /\ lookup_ret' = NoLookup
    /\ UNCHANGED <<reference_conf_ht, regex, regex_study, pc, line, log, probe,
                   load_ret, source, entry_nomem, cmp, earlier>>

\* The load keeping the table the context already holds.
LoadStartKeepsTable(r) ==
    /\ reference_conf_ht' = IF reference_conf_ht # NULL THEN reference_conf_ht ELSE r.ht
    /\ fd' = r.fd
    /\ regex' = r.regex
    /\ regex_study' = r.regex_study
    /\ log' = r.log
    /\ pc' = IF r.ret = -1 THEN "exited" ELSE "parsing"
    /\ source' = IF r.fd = NULL THEN <<>> ELSE Deref(r.fd).lines
    /\ line' = <<>>
    /\ probe' = NoProbe
    /\ load_ret' = NULL
    /\ lookup_ret' = NoLookup
    /\ entry_nomem' = FALSE
    /\ earlier' = IF pc = "returned" THEN Append(earlier, source) ELSE earlier
    /\ stdio' = r.stdio
    /\ UNCHANGED cmp

\* SCRConfLoadReferenceConfigFile up to the first fgets: the init call r
\* and, when it failed, exit(EXIT_FAILURE).
LoadStart(r) ==
    /\ reference_conf_ht' = r.ht
    /\ fd' = r.fd
    /\ regex' = r.regex
    /\ regex_study' = r.regex_study
    /\ log' = r.log
    /\ pc' = IF r.ret = -1 THEN "exited" ELSE "parsing"
    /\ source' = IF r.fd = NULL THEN <<>> ELSE Deref(r.fd).lines
    /\ line' = <<>>
    /\ probe' = NoProbe
    /\ load_ret' = NULL
    /\ lookup_ret' = NoLookup
    /\ entry_nomem' = FALSE
    /\ earlier' = IF pc = "returned" THEN Append(earlier, source) ELSE earlier
    /\ stdio' = r.stdio
    /\ UNCHANGED cmp

\* The file fopen opens, or NULL.
OpenOutcomes == {NULL} \cup Streams

\* A context is loaded once, at start-up.
LoadInit ==
    /\ pc = "idle"
    /\ \E opened \in (IF fd # NULL THEN {NULL} ELSE OpenOutcomes) :
          LoadStart(SCRConfInitContextAndLocalResources(
                        fd, opened, HashTableInit(HashTableArraySize), Compiled, stdio))

\* SCRConfParseFile leaving its loop when SCRConfAddReference fails.
AfterAddStopOnError(r) ==
    /\ reference_conf_ht' = r.ht
    /\ log' = r.log
    /\ probe' = r.probe
    /\ pc' = IF r.crashed \/ r.ret = -1 THEN "crashed" ELSE "parsing"

\* The effect of SCRConfAddReference's result r on the loop.
AfterAdd(r) ==
    /\ reference_conf_ht' = r.ht
    /\ log' = r.log
    /\ probe' = r.probe
    /\ pc' = IF r.crashed THEN "crashed" ELSE "parsing"

\* Whether SCRConfParseFile's loop reaches SCRConfAllocSCRConfReference
\* for the line rawstr.
AllocatesEntry(rawstr) ==
    ~SCRConfIsLineBlankOrComment(rawstr) /\ RegexExec(rawstr) # NULL

\* One turn of SCRConfParseFile's loop whose fgets returns a line.  The
\* instance allocated for the n-th line read gets address n.
ParseStep(mem_ok, survive) ==
    /\ pc = "parsing"
    /\ Deref(fd).buf # <<>>
    /\ line' = SubSeq(Deref(fd).buf, 1, FgetsLen(Deref(fd).buf))
    /\ fd' = Ptr(Advance(Deref(fd), Len(line')))
    /\ IF SCRConfIsLineBlankOrComment(line')
       THEN /\ log' = "none"
            /\ probe' = NoProbe
            /\ UNCHANGED <<reference_conf_ht, pc>>
       ELSE AfterAdd(SCRConfAddReference(
                         line', reference_conf_ht,
                         Len(source) - Len(Deref(fd).lines) + 1, mem_ok, survive))
    /\ entry_nomem' = (entry_nomem \/ (~mem_ok /\ AllocatesEntry(line')))
    /\ stdio' = FGets(stdio)
    /\ UNCHANGED <<regex, regex_study, load_ret, lookup_ret, source, cmp, earlier>>

ParseLine == ParseStep(TRUE, TRUE)

\* fgets returns NULL: the loop ends, SCRConfDeInitLocalResources runs and
\* SCRConfLoadReferenceConfigFile returns 0.
LoadFinish ==
    /\ pc = "parsing"
    /\ Deref(fd).buf = <<>>
    /\ fd' = SCRConfDeInitLocalResources(fd, FGets(stdio)).fd
    /\ regex' = SCRConfDeInitLocalResources(fd, FGets(stdio)).regex
    /\ regex_study' = SCRConfDeInitLocalResources(fd, FGets(stdio)).regex_study
    /\ stdio' = SCRConfDeInitLocalResources(fd, FGets(stdio)).stdio
    /\ line' = <<>>
    /\ log' = "none"
    /\ probe' = NoProbe
    /\ load_ret' = Ptr(0)
    /\ pc' = "returned"
    /\ UNCHANGED <<reference_conf_ht, lookup_ret, source, entry_nomem, cmp, earlier>>

\* A signature's reference keyword is resolved against a loaded context.
GetReference ==
    /\ pc = "returned"
    /\ reference_conf_ht # NULL
    /\ \E name \in LookupNames :
          lookup_ret' = [called |-> TRUE, name |-> name,
                         ret |-> SCRConfGetReference(name, reference_conf_ht)]
    /\ UNCHANGED <<reference_conf_ht, fd, regex, regex_study, pc, line, log,
                   probe, load_ret, source, entry_nomem, cmp, earlier, stdio>>

\* SCRConfDeInitContext(de_ctx)
SCRConfDeInitContext ==
    /\ Outside
    /\ reference_conf_ht # NULL
    /\ reference_conf_ht' = NULL
    /\ lookup_ret' = NoLookup
    /\ UNCHANGED <<fd, regex, regex_study, pc, line, log, probe, load_ret, source,
                   entry_nomem, cmp, earlier, stdio>>

Next ==
    \/ InstallDummyFD
    \/ SCRConfDeleteDummyReferenceConfigFD
    \/ LoadInit
    \/ ParseLine
    \/ LoadFinish
    \/ GetReference
    \/ SCRConfDeInitContext

Spec == Init /\ [][Next]_vars

-----------------------------------------------------------------------------
(* The same machine when the file holds lines longer than the buffer *)

\* SCRConfLoadReferenceConfigFile on a file with long lines.
LoadInitLong ==
    /\ pc = "idle"
    /\ fd = NULL
    /\ \E opened \in LongStreams :
          LoadStart(SCRConfInitContextAndLocalResources(
                        fd, opened, HashTableInit(HashTableArraySize), Compiled, stdio))

NextLong ==
    \/ Next
    \/ LoadInitLong

SpecLong == Init /\ [][NextLong]_vars

-----------------------------------------------------------------------------
(* The same machine when a context is loaded more than once *)

MaxLoads == 2

\* The files of the successive loads.
ReloadLines ==
    { Plain(<<"a">>, <<"u">>), Plain(<<"A">>, <<"v">>), Plain(<<"b","a">>, <<"v">>) }

ReloadFiles ==
    {<<>>} \cup { <<l>> : l \in ReloadLines }
           \cup { <<Plain(<<"a">>, <<"u">>), Plain(<<"b","a">>, <<"v">>)>> }

ReloadStreams == { Ptr(Stream(f)) : f \in ReloadFiles }

\* The loads this context has started.
LoadsStarted == Len(earlier) + (IF pc = "idle" THEN 0 ELSE 1)

\* SCRConfLoadReferenceConfigFile(de_ctx), on a context never loaded or
\* loaded before.
LoadAgain ==
    /\ Outside
    /\ LoadsStarted < MaxLoads
    /\ \E opened \in (IF fd # NULL THEN {NULL} ELSE ReloadStreams) :
          LoadStart(SCRConfInitContextAndLocalResources(
                        fd, opened, HashTableInit(HashTableArraySize), Compiled, stdio))

NextReload ==
    \/ LoadAgain
    \/ ParseLine
    \/ LoadFinish
    \/ GetReference
    \/ SCRConfDeInitContext

SpecReload == Init /\ [][NextReload]_vars

-----------------------------------------------------------------------------
(* The same machine under any sequence of fixture, load and delete calls *)

\* The unit tests' fixture function called at any time between loads: fd
\* is set to a new memory stream, whatever it held.
SCRConfGenerateValidDummyReferenceConfigFD01 ==
    /\ Outside
    /\ \E st \in ReloadStreams : fd' = st
    /\ stdio' = FOpen(stdio)
    /\ lookup_ret' = NoLookup
    /\ UNCHANGED <<reference_conf_ht, regex, regex_study, pc, line, log, probe,
                   load_ret, source, entry_nomem, cmp, earlier>>

\* A load whose SCRConfInitContextAndLocalResources fails: HashTableInit
\* or pcre_compile returns NULL, pcre_study reports an error, or the file
\* cannot be opened.
LoadAgainFails ==
    /\ Outside
    /\ LoadsStarted < MaxLoads
    /\ \E opened \in (IF fd # NULL THEN {NULL} ELSE {NULL} \cup ReloadStreams),
          ht_new \in {NULL, HashTableInit(HashTableArraySize)},
          re \in {NULL, Unstudied, Compiled} :
          /\ ht_new = NULL \/ re # Compiled \/ (fd = NULL /\ opened = NULL)
          /\ LoadStart(SCRConfInitContextAndLocalResources(fd, opened, ht_new, re, stdio))

NextSessions ==
    \/ NextReload
    \/ SCRConfGenerateValidDummyReferenceConfigFD01
    \/ SCRConfDeleteDummyReferenceConfigFD
    \/ LoadAgainFails

SpecSessions == Init /\ [][NextSessions]_vars

-----------------------------------------------------------------------------
(* The same machine when memory can run out *)

\* A turn of the loop in which SCRConfAllocSCRConfReference returns NULL.
ParseLineNoMem ==
    /\ pc = "parsing"
    /\ Deref(fd).buf # <<>>
    /\ AllocatesEntry(SubSeq(Deref(fd).buf, 1, FgetsLen(Deref(fd).buf)))
    /\ \E survive \in BOOLEAN : ParseStep(FALSE, survive)

\* HashTableInit or pcre_compile returns NULL.
LoadInitNoMem ==
    /\ pc = "idle"
    /\ \E opened \in (IF fd # NULL THEN {NULL} ELSE OpenOutcomes),
          ht_new \in {NULL, HashTableInit(HashTableArraySize)},
          re \in {NULL, Unstudied, Compiled} :
          /\ ht_new = NULL \/ re # Compiled
          /\ LoadStart(SCRConfInitContextAndLocalResources(fd, opened, ht_new, re, stdio))

\* SCRConfGetReference whose probe cannot be allocated: exit(EXIT_FAILURE).
GetReferenceNoMem ==
    /\ pc = "returned"
    /\ reference_conf_ht # NULL
    /\ pc' = "exited"
    /\ lookup_ret' = NoLookup
    /\ UNCHANGED <<reference_conf_ht, fd, regex, regex_study, line, log,
                   probe, load_ret, source, entry_nomem, cmp, earlier, stdio>>

NextNoMem ==
    \/ Next
    \/ ParseLineNoMem
    \/ LoadInitNoMem
    \/ GetReferenceNoMem

SpecNoMem == Init /\ [][NextNoMem]_vars

-----------------------------------------------------------------------------
(* The hash callbacks called directly on raw references *)

CallHashCallbacks ==
    /\ \E n1 \in RawNames, n2 \in RawNames :
          cmp' = [called |-> TRUE,
                  data1 |-> RawReference(n1),
                  data2 |-> RawReference(n2),
                  equal |-> SCRConfReferenceHashCompareFunc(RawReference(n1),
                                                            RawReference(n2)),
                  hash1 |-> SCRConfReferenceHashFunc(
                                Deref(HashTableInit(HashTableArraySize)),
                                RawReference(n1)),
                  hash2 |-> SCRConfReferenceHashFunc(
                                Deref(HashTableInit(HashTableArraySize)),
                                RawReference(n2))]
    /\ UNCHANGED <<reference_conf_ht, fd, regex, regex_study, pc, line, log,
                   probe, load_ret, lookup_ret, source, entry_nomem, earlier, stdio>>

SpecCallbacks == Init /\ [][CallHashCallbacks]_vars


-----------------------------------------------------------------------------
(* Vocabulary of the properties *)

toupper(c) ==
    IF c \in Range(LowerCase) THEN UpperCase[IndexOf(LowerCase, c)] ELSE c

\* The canonical key of a name: the name with its letters in lower case.
CanonicalKey(name) == [i \in DOMAIN name |-> tolower(name[i])]

\* Every upper/lower-case spelling of a name.
Spellings(name) ==
    { n \in [DOMAIN name -> UNION { {tolower(name[i]), toupper(name[i])} : i \in DOMAIN name }] :
        \A i \in DOMAIN name : tolower(n[i]) = tolower(name[i]) }

\* The stored entries, their keys and the table's count.
Entries == { Deref(e) : e \in HashTableItems(reference_conf_ht) }

KeysOf(ht) == { CanonicalKey(Deref(Deref(e).system)) : e \in HashTableItems(ht) }

CountOf(ht) == IF ht = NULL THEN 0 ELSE Deref(ht).count

IsDirective(d) == d.kind = "directive"

IsMalformed(d) == d.kind \in {"no_colon", "no_value", "bad_keyword", "bad_name"}

IsSkipped(d) == d.kind \in {"blank", "comment"}

\* Line i is a well-formed line and the first such line with its name.
FirstDirective(i) ==
    /\ IsDirective(source[i])
    /\ \A j \in 1..(i - 1) :
          ~(IsDirective(source[j])
            /\ CanonicalKey(source[j].name) = CanonicalKey(source[i].name))

\* The loop is about to read a line: the description of that line.
AboutToRead == pc = "parsing" /\ Deref(fd).buf # <<>>

NextLine == Head(Deref(fd).lines)

\* The loop has read a line: the description of the line last read.
HasRead == pc = "parsing" /\ line # <<>>

LastLine == source[Len(source) - Len(Deref(fd).lines)]

\* A finished load: SCRConfLoadReferenceConfigFile has returned and the
\* context still holds its table.
Loaded == pc = "returned" /\ reference_conf_ht # NULL

-----------------------------------------------------------------------------
\* C1: after a load, looking a name up in any upper/lower-case spelling
\* returns the one entry built from the first well-formed line with that
\* name, and the entry's value is that line's value.
EntryOfLine(e, i) ==
    /\ e # NULL
    /\ Deref(e).addr = i
    /\ source[i].trail = <<>> => Deref(e).url = Ptr(source[i].value)

C2_Step ==
    (AboutToRead /\ IsDirective(NextLine)) =>
        IF CanonicalKey(NextLine.name) \in KeysOf(reference_conf_ht)
        THEN reference_conf_ht' = reference_conf_ht
        ELSE /\ CountOf(reference_conf_ht') = CountOf(reference_conf_ht) + 1
             /\ KeysOf(reference_conf_ht') =
                    KeysOf(reference_conf_ht) \cup {CanonicalKey(NextLine.name)}
             /\ HashTableItems(reference_conf_ht) \subseteq HashTableItems(reference_conf_ht')

C2_FirstOccurrenceWins == [][C2_Step]_vars

\* "A" was read after "a": one entry, with the value of the "a" line.
C2_Witness ==
    /\ HasRead
    /\ log = "Duplicate reference found"
    /\ source[1] = Plain(<<"a">>, <<"u">>)
    /\ LastLine = Plain(<<"A">>, <<"v">>)
    /\ CountOf(reference_conf_ht) = 1
    /\ \A e \in Entries : e.url = Ptr(<<"u">>)

\* C3: a line that fails the grammar is skipped and the load goes on.
\* Reading it changes nothing in the table and the loop continues; the load
\* returns 0, and every first well-formed line has its entry in the table,
\* wherever the malformed lines stand.
C3_Step ==
    (AboutToRead /\ IsMalformed(NextLine)) =>
        /\ reference_conf_ht' = reference_conf_ht
        /\ pc' = "parsing"
        /\ log' = "SC_ERR_REFERENCE_CONFIG"

C3_Final ==
    /\ pc = "returned" => load_ret = Ptr(0)
    /\ Loaded =>
          \A i \in DOMAIN source :
              FirstDirective(i) => \E e \in Entries : e.addr = i

C3_MalformedLinesAreSkipped == [](C3_Final) /\ [][C3_Step]_vars

\* A malformed line, then a well-formed one, which is in the table.
C3_Witness ==
    /\ Loaded
    /\ Len(source) = 2
    /\ IsMalformed(source[1])
    /\ IsDirective(source[2])
    /\ CountOf(reference_conf_ht) = 1
    /\ \E e \in Entries : e.addr = 2

-----------------------------------------------------------------------------
\* The directive's shape, stated on the characters of a line: optional
\* whitespace, "config", whitespace, "reference", optional whitespace, ":",
\* optional whitespace, a name, whitespace, a value of one or more
\* characters other than a newline, optional whitespace.
AllSpace(s, from, to) == \A i \in from..to : isspace(s[i])

HoldsWord(s, at, word) ==
    at + Len(word) - 1 <= Len(s) /\ SubSeq(s, at, at + Len(word) - 1) = word

IsName(s, from, to) ==
    /\ from <= to
    /\ s[from] \in Range(LowerCase) \cup Range(UpperCase)
    /\ \A i \in from..to :
          s[i] \in Range(LowerCase) \cup Range(UpperCase) \cup Range(Digits) \cup {"-", "_"}

IsValue(s, from, to) == from <= to /\ \A i \in from..to : s[i] # "\n"

HasDirectiveShape(s) ==
    \E a \in 1..Len(s) :
      /\ AllSpace(s, 1, a - 1)
      /\ HoldsWord(s, a, kwConfig)
      /\ \E b \in (a + 7)..Len(s) :
           /\ AllSpace(s, a + 6, b - 1)
           /\ HoldsWord(s, b, kwReference)
           /\ \E c \in (b + 9)..Len(s) :
                /\ AllSpace(s, b + 9, c - 1)
                /\ s[c] = ":"
                /\ \E d \in (c + 1)..Len(s), e \in (c + 1)..Len(s) :
                     /\ AllSpace(s, c + 1, d - 1)
                     /\ IsName(s, d, e)
                     /\ \E f \in (e + 2)..Len(s), g \in (e + 2)..Len(s) :
                          /\ AllSpace(s, e + 1, f - 1)
                          /\ IsValue(s, f, g)
                          /\ AllSpace(s, g + 1, Len(s))

-----------------------------------------------------------------------------
\* A line of whitespace only, or whose first non-whitespace character is #.
BlankOrComment(s) ==
    \/ AllSpace(s, 1, Len(s))
    \/ \E i \in DOMAIN s : s[i] = "#" /\ AllSpace(s, 1, i - 1)

\* C5: the lines the loop passes over without running the matcher are
\* exactly the blank lines and the lines whose first non-whitespace
\* character is "#"; passing over one changes nothing in the table and
\* logs nothing.
C5_State ==
    HasRead => ((~probe.called /\ log = "none") <=> BlankOrComment(line))

C5_Step ==
    (AboutToRead /\ BlankOrComment(line')) =>
        /\ reference_conf_ht' = reference_conf_ht
        /\ log' = "none"
        /\ pc' = "parsing"

C5_SkipsExactlyBlankAndComment == [](C5_State) /\ [][C5_Step]_vars

\* After a stored directive, a comment behind leading whitespace is passed over.
C5_Witness ==
    /\ HasRead
    /\ line = <<" ", "\t", "#", "\n">>
    /\ ~probe.called
    /\ log = "none"
    /\ IsDirective(source[1])
    /\ CountOf(reference_conf_ht) = 1

-----------------------------------------------------------------------------
-----------------------------------------------------------------------------
\* C7: in every state no two stored entries have the same canonical key,
\* and the table's count is the number of distinct canonical keys.
C7_KeysAreUnique ==
    /\ \A e1 \in Entries, e2 \in Entries :
          CanonicalKey(Deref(e1.system)) = CanonicalKey(Deref(e2.system)) => e1 = e2
    /\ CountOf(reference_conf_ht) = Cardinality(KeysOf(reference_conf_ht))
    /\ CountOf(reference_conf_ht) = Cardinality(Entries)

\* Two entries with different keys share a bucket.
C7_Witness ==
    /\ reference_conf_ht # NULL
    /\ CountOf(reference_conf_ht) = 2
    /\ \E h \in DOMAIN Deref(reference_conf_ht).array :
          Len(Deref(reference_conf_ht).array[h]) = 2

-----------------------------------------------------------------------------
\* C8: when the entry of a line cannot be allocated, the table is not
\* looked up with the missing entry and the load stops at once, without
\* returning success.
C8_AllocationFailureIsFatal ==
    entry_nomem =>
        /\ ~(probe.called /\ probe.data = NULL)
        /\ pc \notin {"parsing", "returned"}

-----------------------------------------------------------------------------
\* C9: a stored value neither begins nor ends with whitespace, and is the
\* value of its line whatever whitespace follows it on the line.
C9_StoredValueIsTrimmed ==
    \A e \in Entries :
        /\ ~isspace(Deref(e.url)[1])
        /\ ~isspace(Deref(e.url)[Len(Deref(e.url))])
        /\ e.url = Ptr(source[e.addr].value)

-----------------------------------------------------------------------------
\* C10: the compare callback reports two references equal when their names
\* differ only in letter case, as the hash callback gives them one bucket.
C10_ComparatorIgnoresCase ==
    (/\ cmp.called
     /\ CanonicalKey(Deref(Deref(cmp.data1).system))
            = CanonicalKey(Deref(Deref(cmp.data2).system)))
    => (cmp.equal = 1 /\ cmp.hash1 = cmp.hash2)

-----------------------------------------------------------------------------
\* C11: every turn of the loop reads one whole line of the source, so a
\* line is classified once and handed to SCRConfAddReference at most once,
\* whatever its length; every stored entry was built from a directive
\* line, under that line's name, and its value is the whole rest of the line.
C11_State ==
    \A e \in Entries :
        /\ IsDirective(source[e.addr])
        /\ Deref(e.system) = CanonicalKey(source[e.addr].name)
        /\ Deref(e.url) = source[e.addr].value \o source[e.addr].trail

C11_Step == AboutToRead => line' = NextLine.text

C11_OneDirectivePerLine == [](C11_State) /\ [][C11_Step]_vars

-----------------------------------------------------------------------------
\* The canonical keys of the well-formed lines of a source.
DirectiveKeys(src) ==
    { CanonicalKey(src[i].name) : i \in { j \in DOMAIN src : IsDirective(src[j]) } }

\* C12: every load starts from an empty table, and after a load that
\* follows other loads of the same context the table holds exactly the
\* entries of the source just read: a name that only an earlier source
\* carries is not found by lookup.
C12_State ==
    Loaded =>
        /\ KeysOf(reference_conf_ht) = DirectiveKeys(source)
        /\ CountOf(reference_conf_ht) = Cardinality(DirectiveKeys(source))
        /\ \A e \in Entries :
              /\ FirstDirective(e.addr)
              /\ Deref(e.system) = CanonicalKey(source[e.addr].name)
              /\ e.url = Ptr(source[e.addr].value)
        /\ \A k \in DOMAIN earlier : \A i \in DOMAIN earlier[k] :
              (/\ IsDirective(earlier[k][i])
               /\ CanonicalKey(earlier[k][i].name) \notin DirectiveKeys(source))
              => \A n \in Spellings(earlier[k][i].name) :
                     SCRConfGetReference(n, reference_conf_ht) = NULL

C12_Step ==
    (pc # "parsing" /\ pc' = "parsing") =>
        /\ CountOf(reference_conf_ht') = 0
        /\ HashTableItems(reference_conf_ht') = {}

C12_EachLoadStartsEmpty == [](C12_State) /\ [][C12_Step]_vars

\* A second load has returned; the first source held a name the second
\* does not, and a lookup of that name returned NULL.
C12_Witness ==
    /\ Loaded
    /\ Len(earlier) = 1
    /\ \E i \in DOMAIN earlier[1] : earlier[1][i].name = <<"a">>
    /\ DirectiveKeys(source) = { <<"b","a">> }
    /\ CountOf(reference_conf_ht) = 1
    /\ lookup_ret = [called |-> TRUE, name |-> <<"a">>, ret |-> NULL]

-----------------------------------------------------------------------------
\* C13: no stream is closed twice and no closed stream is read; fd is
\* never left pointing to a closed stream; a load reads an open stream,
\* and one that finds fd NULL opens its own; when a load returns the
\* stream it read has been closed and fd, regex and regex_study are NULL,
\* as they are after every failure of the initialization.
C13_State ==
    /\ stdio.fault = "none"
    /\ fd # NULL => stdio.status = "open"
    /\ pc = "parsing" => fd # NULL
    /\ pc \in {"idle", "returned", "exited"} => regex = NULL /\ regex_study = NULL
    /\ pc = "exited" => fd = NULL /\ stdio.status # "open"

C13_Step ==
    /\ (pc = "parsing" /\ pc' = "returned") =>
          /\ fd' = NULL /\ regex' = NULL /\ regex_study' = NULL
          /\ stdio'.status = "closed"
    /\ (Outside /\ fd = NULL /\ pc' = "parsing") =>
          /\ fd' # NULL
          /\ stdio'.status = "open"

====
